---- MODULE Spec2Model ----
(***************************************************************************)
(* The API gateway of ai-stack (gateway/src/main.rs): process start-up,    *)
(* the two warp routes and their handlers handle_chat and handle_tts.      *)
(* Strings and byte bodies are sequences of tokens; JSON documents are     *)
(* functions from keys to tagged values.                                   *)
(***************************************************************************)
EXTENDS Integers, Sequences, FiniteSets, TLC

\* Number of request slots handled concurrently.
MaxReqs == 2
\* Longest "messages" array among the inbound documents of SpecWide.
MaxMsgs == 1

\* HTTP_CLIENT  the process-wide OnceCell<Client>: "unset" or "set"
\* mainPc       where main is: "start", "serving", "exited" (build failed), "panicked"
\* panicMsg     the message of the expect() that panicked, "none" if none did
\* setCount     how many times HTTP_CLIENT.set succeeded
\* reqs         per request: the handler's position (pc), the inbound JSON (doc),
\*              the JSON sent on (sent), the target, the number of send() calls,
\*              what the backend did (outcome, err, reply), the handler's locals
\*              (status_code, content_type), the reply (resp) and how many replies
VARIABLES HTTP_CLIENT, mainPc, panicMsg, setCount, reqs

vars == <<HTTP_CLIENT, mainPc, panicMsg, setCount, reqs>>

ReqIds == 1..MaxReqs

----------------------------------------------------------------------------
(* JSON values as the inbound body carries them *)

Str(s) == [t |-> "str", s |-> s, a |-> <<>>]
Num(s) == [t |-> "num", s |-> s, a |-> <<>>]
Arr(a) == [t |-> "arr", s |-> "", a |-> a]
Null == [t |-> "null", s |-> "", a |-> <<>>]
Absent == [t |-> "absent", s |-> "", a |-> <<>>]

\* The JSON object holding the members of f that are present.
Obj(f) == [k \in {x \in DOMAIN f : f[x].t # "absent"} |-> f[k]]

None == [some |-> FALSE, s |-> ""]
Some(s) == [some |-> TRUE, s |-> s]

----------------------------------------------------------------------------
(* warp::body::json() into the derived Deserialize of the request structs *)

MessageDecodes(m) ==
    /\ "role" \in DOMAIN m
    /\ "content" \in DOMAIN m

DecodeMessage(m) == [role |-> m["role"], content |-> m["content"]]

ChatDecodes(d) ==
    /\ "model" \in DOMAIN d
    /\ d["model"].t = "str"
    /\ "messages" \in DOMAIN d
    /\ d["messages"].t = "arr"
    /\ \A i \in DOMAIN d["messages"].a : MessageDecodes(d["messages"].a[i])

DecodeChat(d) ==
    [model |-> d["model"].s,
     messages |-> [i \in DOMAIN d["messages"].a |-> DecodeMessage(d["messages"].a[i])]]

OptionDecodes(d, k) == k \in DOMAIN d => d[k].t \in {"str", "null"}

DecodeOption(d, k) ==
    IF k \in DOMAIN d /\ d[k].t = "str" THEN Some(d[k].s) ELSE None

TtsDecodes(d) ==
    /\ "input" \in DOMAIN d
    /\ d["input"].t = "str"
    /\ OptionDecodes(d, "voice")
    /\ OptionDecodes(d, "format")

DecodeTts(d) ==
    [input |-> d["input"].s,
     voice |-> DecodeOption(d, "voice"),
     format |-> DecodeOption(d, "format")]

----------------------------------------------------------------------------
(* RequestBuilder::json(&body): the derived Serialize of the request structs *)

EncodeMessage(m) == [role |-> m.role, content |-> m.content]

EncodeChat(b) ==
    [model |-> Str(b.model),
     messages |-> Arr([i \in DOMAIN b.messages |-> EncodeMessage(b.messages[i])])]

EncodeOption(o) == IF o.some THEN Str(o.s) ELSE Null

EncodeTts(b) ==
    [input |-> Str(b.input),
     voice |-> EncodeOption(b.voice),
     format |-> EncodeOption(b.format)]

----------------------------------------------------------------------------
(* Target resolution *)

DefaultChatTarget == "http://localhost:9000/v1/chat/completions"

\* Mutant: the routing table of the doc comment, with a second backend.
get_llm_target_ByPrefix(model) ==
    IF model = "llama-3.1-8b" THEN "http://localhost:9002/v1/chat/completions"
    ELSE "http://localhost:9000/v1/chat/completions"

get_llm_target(model) == "http://localhost:9000/v1/chat/completions"

TtsTarget == "http://localhost:9001/v1/audio/speech"

----------------------------------------------------------------------------
(* Response translation *)

\* warp::http::StatusCode::from_u16 accepts 100..=999.
from_u16_ok(n) == n >= 100 /\ n < 1000

WarpStatus(status_code) == IF from_u16_ok(status_code) THEN status_code ELSE 200

BadGateway == 502

RECURSIVE Escape(_)
\* serde_json string escaping of the quote and the backslash.
Escape(s) ==
    IF s = <<>> THEN <<>>
    ELSE (IF Head(s) \in {"\"", "\\"} THEN <<"\\", Head(s)>> ELSE <<Head(s)>>)
         \o Escape(Tail(s))

\* serde_json::to_vec(&ErrorResponse { error })
ErrorResponseToVec(error) ==
    <<"{", "\"error\"", ":", "\"">> \o Escape(error) \o <<"\"", "}">>

ChatErrorPrefix == <<"llm-node unreachable: ">>
TtsErrorPrefix == <<"TTS node unreachable: ">>

ChatErrReply(e) ==
    [status |-> BadGateway, ctype |-> "application/json",
     body |-> ErrorResponseToVec(ChatErrorPrefix \o e)]

\* Mutant: the speech branch keeps the chat branch's prefix.
TtsErrReplyChatPrefix(e) ==
    [status |-> BadGateway, ctype |-> "application/json",
     body |-> ErrorResponseToVec(ChatErrorPrefix \o e)]

TtsErrReply(e) ==
    [status |-> BadGateway, ctype |-> "application/json",
     body |-> ErrorResponseToVec(TtsErrorPrefix \o e)]

\* r.bytes().await.unwrap_or_default()
BytesOrDefault(readOk, bytes) == IF readOk THEN bytes ELSE <<>>

\* Mutant: a backend 5xx is answered as a gateway failure.
ChatOkReplyMaskingErrors(status_code, bytes) ==
    IF status_code >= 500
    THEN [status |-> BadGateway, ctype |-> "application/json",
          body |-> ErrorResponseToVec(ChatErrorPrefix \o <<"backend error">>)]
    ELSE [status |-> WarpStatus(status_code), ctype |-> "application/json", body |-> bytes]

ChatOkReply(status_code, bytes) ==
    [status |-> WarpStatus(status_code), ctype |-> "application/json", body |-> bytes]

\* headers().get("content-type").and_then(to_str().ok()).unwrap_or(..)
TtsContentType(hdr) ==
    IF hdr.present /\ hdr.visible THEN hdr.value ELSE "application/octet-stream"

TtsOkReply(status_code, content_type, bytes) ==
    [status |-> WarpStatus(status_code), ctype |-> content_type, body |-> bytes]

----------------------------------------------------------------------------
(* Inputs: inbound documents, transport errors and backend replies *)

MessageObjs ==
    { [role |-> "user", content |-> "hi"],
      [role |-> "user", content |-> "hi", name |-> "bob"],
      [role |-> "user"] }

RECURSIVE SeqsUpTo(_, _)
SeqsUpTo(S, n) ==
    IF n = 0 THEN {<<>>}
    ELSE SeqsUpTo(S, n - 1) \cup {Append(q, x) : q \in {p \in SeqsUpTo(S, n - 1) : Len(p) = n - 1}, x \in S}

WideChatDocs ==
    { Obj([model |-> m, messages |-> ms, temperature |-> t]) :
        m \in {Absent, Null, Str("qwen3-8b-instruct"), Str("llama-3.1-8b"), Str("unknown-model")},
        ms \in {Absent} \cup {Arr(q) : q \in SeqsUpTo(MessageObjs, MaxMsgs)},
        t \in {Absent, Num("0.2")} }

WideTtsDocs ==
    { Obj([input |-> i, voice |-> v, format |-> f, speed |-> sp]) :
        i \in {Absent, Str("hello")},
        v \in {Absent, Null, Str("en_US")},
        f \in {Absent, Null, Str("wav"), Str("mp3")},
        sp \in {Absent, Num("1.5")} }

WideInbound ==
    {[route |-> "chat", doc |-> d] : d \in WideChatDocs}
        \cup {[route |-> "tts", doc |-> d] : d \in WideTtsDocs}

\* Scenario A, the empty-messages boundary, Scenario C, and a body that does not decode.
Inbound ==
    { [route |-> "chat",
       doc |-> Obj([model |-> Str("qwen3-8b-instruct"),
                    messages |-> Arr(<<[role |-> "user", content |-> "hi"]>>)])],
      [route |-> "chat",
       doc |-> Obj([model |-> Str("unknown-model"), messages |-> Arr(<<>>)])],
      [route |-> "tts",
       doc |-> Obj([input |-> Str("hello"), voice |-> Str("en_US"), format |-> Str("wav")])],
      [route |-> "tts", doc |-> Obj([voice |-> Str("en_US")])] }

\* Display of the reqwest error a failed send() returns.
TransportErrors ==
    { <<"error sending request: ", "connection refused">>,
      <<"error sending request: ", "dns error for ", "\"", "localhost", "\"">> }

Hdr(v) == [present |-> TRUE, visible |-> TRUE, value |-> v]
OpaqueHdr == [present |-> TRUE, visible |-> FALSE, value |-> "audio/x-<80>"]
NoHdr == [present |-> FALSE, visible |-> FALSE, value |-> ""]

BackendReplies ==
    { [status |-> 200, hdr |-> Hdr("application/json"), bytes |-> <<"{", "\"id\"", ":", "\"x\"", "}">>],
      [status |-> 200, hdr |-> Hdr("audio/wav"), bytes |-> <<"RIFF", "WAVE">>],
      [status |-> 400, hdr |-> Hdr("text/plain; charset=utf-8"), bytes |-> <<"Unsupported format">>],
      [status |-> 502, hdr |-> NoHdr, bytes |-> <<"upstream failed">>],
      [status |-> 999, hdr |-> OpaqueHdr, bytes |-> <<>>] }

NoReply == [status |-> 0, hdr |-> NoHdr, bytes |-> <<>>]
NoResp == [status |-> 0, ctype |-> "", body |-> <<>>]
NoDoc == Obj([none |-> Absent])

----------------------------------------------------------------------------
(* State *)

IdleReq ==
    [pc |-> "idle", route |-> "", doc |-> NoDoc, sent |-> NoDoc, target |-> "",
     calls |-> 0, outcome |-> "none", err |-> <<>>, reply |-> NoReply,
     status_code |-> 0, content_type |-> "", resp |-> NoResp, replies |-> 0]

Init ==
    /\ HTTP_CLIENT = "unset"
    /\ mainPc = "start"
    /\ panicMsg = "none"
    /\ setCount = 0
    /\ reqs = [r \in ReqIds |-> IdleReq]

----------------------------------------------------------------------------
(* main *)

\* HTTP_CLIENT.set(Client::builder().build()?).expect("client already set"),
\* then warp::serve(routes).run(addr).
MainSetClient ==
    /\ mainPc = "start"
    /\ IF HTTP_CLIENT # "unset"
       THEN /\ panicMsg' = "client already set"
            /\ mainPc' = "panicked"
            /\ UNCHANGED <<HTTP_CLIENT, setCount>>
       ELSE /\ HTTP_CLIENT' = "set"
            /\ setCount' = setCount + 1
            /\ mainPc' = "serving"
            /\ UNCHANGED panicMsg
    /\ UNCHANGED reqs

\* Client::builder().build()? returns the error out of main.
MainBuildFails ==
    /\ mainPc = "start"
    /\ mainPc' = "exited"
    /\ UNCHANGED <<HTTP_CLIENT, panicMsg, setCount, reqs>>

\* Mutant: the server is spawned before the client is set.
ServingBeforeSet == mainPc \in {"start", "serving"}

\* The routes are served once main has reached warp::serve.
Serving == mainPc = "serving"

----------------------------------------------------------------------------
(* HTTP surface and handlers *)

\* Request slots are taken in order of arrival.
NextSlot(r) ==
    /\ reqs[r].pc = "idle"
    /\ IF r = 1 THEN TRUE ELSE reqs[r - 1].pc # "idle"

Decodes(i) == IF i.route = "chat" THEN ChatDecodes(i.doc) ELSE TtsDecodes(i.doc)

\* warp::body::json() rejects the request; no handler runs.
SurfaceReject(r, i) ==
    /\ Serving
    /\ NextSlot(r)
    /\ ~Decodes(i)
    /\ reqs' = [reqs EXCEPT ![r] = [@ EXCEPT !.pc = "rejected", !.route = i.route, !.doc = i.doc]]
    /\ UNCHANGED <<HTTP_CLIENT, mainPc, panicMsg, setCount>>

\* handle_chat up to the suspension in send().await
HandleChatStart(r, i) ==
    /\ Serving
    /\ NextSlot(r)
    /\ i.route = "chat"
    /\ ChatDecodes(i.doc)
    /\ LET body == DecodeChat(i.doc)
           target == get_llm_target(body.model)
       IN IF HTTP_CLIENT = "unset"
          THEN /\ panicMsg' = "client not initialized"
               /\ reqs' = [reqs EXCEPT ![r] = [@ EXCEPT !.pc = "panicked", !.route = "chat",
                                                        !.doc = i.doc, !.target = target]]
          ELSE /\ reqs' = [reqs EXCEPT ![r] = [@ EXCEPT !.pc = "sending", !.route = "chat",
                                                        !.doc = i.doc, !.target = target,
                                                        !.sent = EncodeChat(body),
                                                        !.calls = @ + 1]]
               /\ UNCHANGED panicMsg
    /\ UNCHANGED <<HTTP_CLIENT, mainPc, setCount>>

\* Mutant: a failed send() is tried once more.
ChatSendErrRetry(r, e) ==
    /\ reqs[r].pc = "sending"
    /\ reqs[r].route = "chat"
    /\ IF reqs[r].calls < 2
       THEN reqs' = [reqs EXCEPT ![r] = [@ EXCEPT !.calls = @ + 1]]
       ELSE reqs' = [reqs EXCEPT ![r] = [@ EXCEPT !.pc = "done", !.outcome = "send_err",
                                                  !.err = e, !.resp = ChatErrReply(e),
                                                  !.replies = @ + 1]]
    /\ UNCHANGED <<HTTP_CLIENT, mainPc, panicMsg, setCount>>

\* Mutant: a failed send() fails every request suspended in send().
ChatSendErrFatal(r, e) ==
    /\ reqs[r].pc = "sending"
    /\ reqs[r].route = "chat"
    /\ reqs' = [s \in ReqIds |->
                   IF reqs[s].pc = "sending"
                   THEN [reqs[s] EXCEPT !.pc = "done", !.outcome = "send_err", !.err = e,
                                        !.resp = ChatErrReply(e), !.replies = @ + 1]
                   ELSE reqs[s]]
    /\ UNCHANGED <<HTTP_CLIENT, mainPc, panicMsg, setCount>>

\* Mutant: once a request has failed, later failures are answered 503.
ChatSendErrBreaker(r, e) ==
    /\ reqs[r].pc = "sending"
    /\ reqs[r].route = "chat"
    /\ LET tripped == \E s \in ReqIds : reqs[s].outcome = "send_err"
       IN reqs' = [reqs EXCEPT ![r] = [@ EXCEPT !.pc = "done", !.outcome = "send_err", !.err = e,
                                                !.resp = [ChatErrReply(e) EXCEPT
                                                             !.status = IF tripped THEN 503 ELSE @],
                                                !.replies = @ + 1]]
    /\ UNCHANGED <<HTTP_CLIENT, mainPc, panicMsg, setCount>>

\* send().await returned Err(e)
ChatSendErr(r, e) ==
    /\ reqs[r].pc = "sending"
    /\ reqs[r].route = "chat"
    /\ reqs' = [reqs EXCEPT ![r] = [@ EXCEPT !.pc = "done", !.outcome = "send_err", !.err = e,
                                             !.resp = ChatErrReply(e), !.replies = @ + 1]]
    /\ UNCHANGED <<HTTP_CLIENT, mainPc, panicMsg, setCount>>

\* send().await returned Ok(r): status line and headers are in; bytes().await suspends
ChatSendOk(r, reply) ==
    /\ reqs[r].pc = "sending"
    /\ reqs[r].route = "chat"
    /\ reqs' = [reqs EXCEPT ![r] = [@ EXCEPT !.pc = "reading", !.outcome = "headers",
                                             !.reply = reply, !.status_code = reply.status]]
    /\ UNCHANGED <<HTTP_CLIENT, mainPc, panicMsg, setCount>>

\* bytes().await returned (Ok when readOk), the reply is built
ChatReadBody(r, readOk) ==
    /\ reqs[r].pc = "reading"
    /\ reqs[r].route = "chat"
    /\ LET bytes == BytesOrDefault(readOk, reqs[r].reply.bytes)
       IN reqs' = [reqs EXCEPT ![r] = [@ EXCEPT !.pc = "done",
                                                !.outcome = IF readOk THEN "ok" ELSE "body_err",
                                                !.resp = ChatOkReply(reqs[r].status_code, bytes),
                                                !.replies = @ + 1]]
    /\ UNCHANGED <<HTTP_CLIENT, mainPc, panicMsg, setCount>>

\* handle_tts up to the suspension in send().await
HandleTtsStart(r, i) ==
    /\ Serving
    /\ NextSlot(r)
    /\ i.route = "tts"
    /\ TtsDecodes(i.doc)
    /\ LET body == DecodeTts(i.doc)
       IN IF HTTP_CLIENT = "unset"
          THEN /\ panicMsg' = "client not initialized"
               /\ reqs' = [reqs EXCEPT ![r] = [@ EXCEPT !.pc = "panicked", !.route = "tts",
                                                        !.doc = i.doc]]
          ELSE /\ reqs' = [reqs EXCEPT ![r] = [@ EXCEPT !.pc = "sending", !.route = "tts",
                                                        !.doc = i.doc, !.target = TtsTarget,
                                                        !.sent = EncodeTts(body),
                                                        !.calls = @ + 1]]
               /\ UNCHANGED panicMsg
    /\ UNCHANGED <<HTTP_CLIENT, mainPc, setCount>>

TtsSendErr(r, e) ==
    /\ reqs[r].pc = "sending"
    /\ reqs[r].route = "tts"
    /\ reqs' = [reqs EXCEPT ![r] = [@ EXCEPT !.pc = "done", !.outcome = "send_err", !.err = e,
                                             !.resp = TtsErrReply(e), !.replies = @ + 1]]
    /\ UNCHANGED <<HTTP_CLIENT, mainPc, panicMsg, setCount>>

TtsSendOk(r, reply) ==
    /\ reqs[r].pc = "sending"
    /\ reqs[r].route = "tts"
    /\ reqs' = [reqs EXCEPT ![r] = [@ EXCEPT !.pc = "reading", !.outcome = "headers",
                                             !.reply = reply, !.status_code = reply.status,
                                             !.content_type = TtsContentType(reply.hdr)]]
    /\ UNCHANGED <<HTTP_CLIENT, mainPc, panicMsg, setCount>>

TtsReadBody(r, readOk) ==
    /\ reqs[r].pc = "reading"
    /\ reqs[r].route = "tts"
    /\ LET bytes == BytesOrDefault(readOk, reqs[r].reply.bytes)
       IN reqs' = [reqs EXCEPT ![r] = [@ EXCEPT !.pc = "done",
                                                !.outcome = IF readOk THEN "ok" ELSE "body_err",
                                                !.resp = TtsOkReply(reqs[r].status_code,
                                                                    reqs[r].content_type, bytes),
                                                !.replies = @ + 1]]
    /\ UNCHANGED <<HTTP_CLIENT, mainPc, panicMsg, setCount>>

----------------------------------------------------------------------------
(* Specifications *)

Next ==
    \/ MainSetClient
    \/ MainBuildFails
    \/ \E r \in ReqIds, i \in Inbound : SurfaceReject(r, i)
    \/ \E r \in ReqIds, i \in Inbound : HandleChatStart(r, i)
    \/ \E r \in ReqIds, e \in TransportErrors : ChatSendErr(r, e)
    \/ \E r \in ReqIds, reply \in BackendReplies : ChatSendOk(r, reply)
    \/ \E r \in ReqIds, readOk \in BOOLEAN : ChatReadBody(r, readOk)
    \/ \E r \in ReqIds, i \in Inbound : HandleTtsStart(r, i)
    \/ \E r \in ReqIds, e \in TransportErrors : TtsSendErr(r, e)
    \/ \E r \in ReqIds, reply \in BackendReplies : TtsSendOk(r, reply)
    \/ \E r \in ReqIds, readOk \in BOOLEAN : TtsReadBody(r, readOk)

Spec == Init /\ [][Next]_vars

\* One request at a time, over the wide set of inbound documents.
NextWide ==
    \/ MainSetClient
    \/ MainBuildFails
    \/ \E i \in WideInbound : SurfaceReject(1, i)
    \/ \E i \in WideInbound : HandleChatStart(1, i)
    \/ \E e \in TransportErrors : ChatSendErr(1, e)
    \/ \E reply \in BackendReplies : ChatSendOk(1, reply)
    \/ \E readOk \in BOOLEAN : ChatReadBody(1, readOk)
    \/ \E i \in WideInbound : HandleTtsStart(1, i)
    \/ \E e \in TransportErrors : TtsSendErr(1, e)
    \/ \E reply \in BackendReplies : TtsSendOk(1, reply)
    \/ \E readOk \in BOOLEAN : TtsReadBody(1, readOk)

SpecWide == Init /\ [][NextWide]_vars

----------------------------------------------------------------------------
(* Helpers of the properties *)

Handled(r) == reqs[r].pc \in {"sending", "reading", "done"}
Done(r) == reqs[r].pc = "done"

HasPrefix(s, p) == Len(s) >= Len(p) /\ SubSeq(s, 1, Len(p)) = p

RECURSIVE Unescape(_)
Unescape(s) ==
    IF s = <<>> THEN <<>>
    ELSE IF Head(s) = "\\" /\ Len(s) >= 2 THEN <<s[2]>> \o Unescape(Tail(Tail(s)))
    ELSE <<Head(s)>> \o Unescape(Tail(s))

\* The body is the JSON object {"error": <string>}.
IsErrorResponse(bytes) ==
    /\ Len(bytes) >= 6
    /\ SubSeq(bytes, 1, 4) = <<"{", "\"error\"", ":", "\"">>
    /\ SubSeq(bytes, Len(bytes) - 1, Len(bytes)) = <<"\"", "}">>

ErrorOf(bytes) == Unescape(SubSeq(bytes, 5, Len(bytes) - 2))

PrefixOf(route) == IF route = "chat" THEN ChatErrorPrefix ELSE TtsErrorPrefix
OtherPrefixOf(route) == IF route = "chat" THEN TtsErrorPrefix ELSE ChatErrorPrefix
DefaultTypeOf(route) == IF route = "chat" THEN "application/json" ELSE "application/octet-stream"

IsBadGatewayReply(r) ==
    /\ reqs[r].resp.status = 502
    /\ reqs[r].resp.ctype = "application/json"
    /\ IsErrorResponse(reqs[r].resp.body)

----------------------------------------------------------------------------
(* Properties *)

\* C1: on both routes, when send() fails the response is 502, application/json,
\* and an ErrorResponse whose error is the failing route's prefix followed by the
\* diagnostic, never the other route's prefix, whatever the failure was.
C1_TransportFailureIsBadGateway ==
    \A r \in ReqIds :
        (Done(r) /\ reqs[r].outcome = "send_err") =>
            /\ IsBadGatewayReply(r)
            /\ ErrorOf(reqs[r].resp.body) = PrefixOf(reqs[r].route) \o reqs[r].err
            /\ ~HasPrefix(ErrorOf(reqs[r].resp.body), OtherPrefixOf(reqs[r].route))

\* A chat and a speech request have both failed in send(), with different errors.
C1_Witness ==
    \E r1, r2 \in ReqIds :
        /\ Done(r1) /\ reqs[r1].route = "chat" /\ reqs[r1].outcome = "send_err"
        /\ Done(r2) /\ reqs[r2].route = "tts" /\ reqs[r2].outcome = "send_err"
        /\ reqs[r1].err # reqs[r2].err

\* C2: on both routes a fully received backend reply is relayed with the backend's
\* status and body unchanged, whatever the status; the gateway's status is the
\* backend's status or, when send() failed, 502.
C2_ReplyPassedThrough ==
    \A r \in ReqIds :
        Done(r) =>
            /\ reqs[r].outcome = "ok" =>
                   /\ reqs[r].resp.status = reqs[r].reply.status
                   /\ reqs[r].resp.body = reqs[r].reply.bytes
            /\ reqs[r].outcome = "send_err" => reqs[r].resp.status = 502
            /\ reqs[r].outcome # "send_err" => reqs[r].resp.status = reqs[r].reply.status

\* A backend 5xx with a body has been relayed on each route.
C2_Witness ==
    \E r1, r2 \in ReqIds :
        /\ Done(r1) /\ reqs[r1].route = "chat" /\ reqs[r1].outcome = "ok"
        /\ Done(r2) /\ reqs[r2].route = "tts" /\ reqs[r2].outcome = "ok"
        /\ reqs[r1].reply.status >= 500 /\ reqs[r1].reply.bytes # <<>>
        /\ reqs[r2].reply.status >= 400 /\ reqs[r2].reply.bytes # <<>>

\* C3: every failure while receiving the backend's response, a failed body read
\* included, is answered 502 with the JSON error payload; the backend's status
\* never goes out with a body that is not the backend's.
C3_ReceiveFailureIsBadGateway ==
    \A r \in ReqIds :
        Done(r) =>
            /\ reqs[r].outcome \in {"send_err", "body_err"} => IsBadGatewayReply(r)
            /\ reqs[r].outcome = "body_err" =>
                   ~(/\ reqs[r].resp.status = reqs[r].reply.status
                     /\ reqs[r].resp.body # reqs[r].reply.bytes)

\* C4: on both routes the Content-Type of a relayed reply is the backend's
\* content-type when the backend sent one, the route's default otherwise.
C4_ContentTypePassedThrough ==
    \A r \in ReqIds :
        (Done(r) /\ reqs[r].outcome = "ok") =>
            reqs[r].resp.ctype =
                IF reqs[r].reply.hdr.present THEN reqs[r].reply.hdr.value
                ELSE DefaultTypeOf(reqs[r].route)

\* C5: the JSON body sent to the backend is the inbound JSON body: every member
\* the client sent is there, and absent members stay absent.
C5_BodyForwardedUnmodified ==
    \A r \in ReqIds : Handled(r) => reqs[r].sent = reqs[r].doc

\* C6: every chat request, whatever its model name, is sent to the default chat
\* target, and resolving it fails nothing and changes nothing process-wide.
C6_ChatTargetIsDefault ==
    \A r \in ReqIds :
        (reqs[r].route = "chat" /\ reqs[r].pc \notin {"idle", "rejected"}) =>
            /\ reqs[r].target = DefaultChatTarget
            /\ Handled(r)
            /\ panicMsg = "none"
            /\ HTTP_CLIENT = "set"

\* A chat request naming a model no routing rule knows has been sent on.
C6_Witness ==
    \E r \in ReqIds :
        /\ reqs[r].route = "chat"
        /\ Handled(r)
        /\ reqs[r].doc["model"] = Str("unknown-model")
        /\ reqs[r].target = DefaultChatTarget

\* C7: a handled request has exactly one outbound call when it is answered, and
\* never more than one, also after a transport failure or a backend error status.
C7_OneOutboundCall ==
    \A r \in ReqIds :
        /\ reqs[r].calls <= 1
        /\ Handled(r) => reqs[r].calls = 1
        /\ reqs[r].replies >= 1 => reqs[r].calls = 1

\* One request answered after a failed send(), another after a backend error status.
C7_Witness ==
    \E r1, r2 \in ReqIds :
        /\ Done(r1) /\ reqs[r1].outcome = "send_err" /\ reqs[r1].calls = 1
        /\ Done(r2) /\ reqs[r2].outcome = "ok" /\ reqs[r2].reply.status >= 400
        /\ reqs[r2].calls = 1

\* C8: the client is set exactly once, before the routes are served; whenever a
\* handler has run the client is set, and neither expect() has panicked.
C8_ClientSetOnceBeforeServing ==
    /\ setCount <= 1
    /\ panicMsg = "none"
    /\ Serving => (HTTP_CLIENT = "set" /\ setCount = 1)
    /\ HTTP_CLIENT = "set" <=> setCount = 1
    /\ \A r \in ReqIds : reqs[r].pc # "idle" => (HTTP_CLIENT = "set" /\ setCount = 1)

\* Two handlers are suspended in their outbound calls at once.
C8_Witness ==
    \E r1, r2 \in ReqIds :
        /\ r1 # r2
        /\ reqs[r1].pc = "sending" /\ reqs[r1].route = "chat"
        /\ reqs[r2].pc = "sending" /\ reqs[r2].route = "tts"
        /\ HTTP_CLIENT = "set"

SameExchange(r1, r2) ==
    /\ reqs[r1].route = reqs[r2].route
    /\ reqs[r1].doc = reqs[r2].doc
    /\ reqs[r1].outcome = reqs[r2].outcome
    /\ reqs[r1].err = reqs[r2].err
    /\ reqs[r1].reply = reqs[r2].reply

\* C9: two answered requests with the same route and body whose backend behaved
\* the same way have the same response, and the process-wide state is as main
\* left it.
C9_IdenticalRequestsIdenticalResponses ==
    /\ \A r1, r2 \in ReqIds :
           (Done(r1) /\ Done(r2) /\ SameExchange(r1, r2)) => reqs[r1].resp = reqs[r2].resp
    /\ (\E r \in ReqIds : reqs[r].pc # "idle") =>
           (HTTP_CLIENT = "set" /\ setCount = 1 /\ mainPc = "serving" /\ panicMsg = "none")

\* The same request was answered twice after the same transport failure.
C9_Witness ==
    \E r1, r2 \in ReqIds :
        /\ r1 # r2
        /\ Done(r1) /\ Done(r2) /\ SameExchange(r1, r2)
        /\ reqs[r1].outcome = "send_err"

\* The handler of request r resumes from its suspension point.
Resume(r) ==
    \/ \E e \in TransportErrors : ChatSendErr(r, e) \/ TtsSendErr(r, e)
    \/ \E reply \in BackendReplies : ChatSendOk(r, reply) \/ TtsSendOk(r, reply)
    \/ \E readOk \in BOOLEAN : ChatReadBody(r, readOk) \/ TtsReadBody(r, readOk)

RequestsIsolated ==
    \A r \in ReqIds :
        /\ reqs[r].replies <= 1
        /\ Done(r) <=> reqs[r].replies = 1
        /\ reqs[r].pc # "panicked"
        /\ reqs[r].pc \in {"sending", "reading"} => ENABLED Resume(r)

StepIsLocal ==
    \A r \in ReqIds :
        /\ reqs'[r] # reqs[r] => \A s \in ReqIds \ {r} : reqs'[s] = reqs[s]
        /\ Done(r) => reqs'[r] = reqs[r]

\* C10: under every interleaving a step of one request leaves every other
\* request as it was, an answered request stays as answered, a suspended request
\* can always resume whatever the others are doing, and a request is answered
\* exactly once, when its own outbound call completes; no handler panics.
C10_RequestsIndependent == [](RequestsIsolated /\ panicMsg = "none") /\ [][StepIsLocal]_vars

\* A later request has been answered while an earlier one is still suspended.
C10_Witness ==
    /\ reqs[1].pc = "sending"
    /\ Done(2)
    /\ reqs[2].outcome = "ok"

====
